---- MODULE Spec2Model ----
(***************************************************************************)
(* <templastic-import>: the fetch cache with in-flight deduplication, the   *)
(* lazy-loading trigger, and the load pipeline of every instance, as the    *)
(* browser's event loop interleaves them (src/Templastic/templastic.js).    *)
(***************************************************************************)
EXTENDS Naturals, Sequences, FiniteSets

\* ------------------------------------------------------------------ bounds
\* What the page does to the component after it was parsed, in one behaviour:
\* insertions, removals, attribute changes, reload(), clearCache() and
\* prefetch() calls.
MaxOps == 2

\* The longest srcset value, in characters.
MaxLen == 4

\* ---------------------------------------------------------------- universe
Insts == {"A", "B"}
Null == "null"
Srcs == {"a.html", "b.html"}

\* new URL(src, document.baseURI).href
Resolve(s) == IF s = "a.html" THEN "https://h/a.html" ELSE "https://h/b.html"

URLs == {Resolve(s) : s \in Srcs}

\* What a retrieval settles with, and what a cache slot holds.
\* kind: "none" (nothing), "text" (a body), "failed" (response.ok false, line
\* 248, or fetch() rejected: one path from the .catch of line 258 on),
\* "abort" (AbortError).
\* bad: the body holds a stylesheet link whose href new URL() rejects
\* (templastic.js:319, not inside a try of _processHTML).
NoRes == [kind |-> "none", url |-> Null, bad |-> FALSE]

Text(u, b) == [kind |-> "text", url |-> u, bad |-> b]

Fail(k) == [kind |-> k, url |-> Null, bad |-> FALSE]

Outcomes(u) == {Text(u, FALSE), Text(u, TRUE), Fail("failed")}

Placeholder == [kind |-> "placeholder", url |-> Null, bad |-> FALSE]

\* ------------------------------------------------------------------- state
VARIABLES
  _cache,            \* static _cache: URL -> body (NoRes: no key)
  _pending,          \* static _pending: URL -> request id (0: no key)
  reqs,              \* every fetch() issued: the promise chain of each
  runs,              \* every _beginLoad run that reached its await
  src,               \* attribute src of each instance (Null: absent)
  loading,           \* attribute loading of each instance (Null: absent)
  _observer,         \* this._observer is set
  leaked,            \* observers still observing that _observer lost
  _abortController,  \* this._abortController: the request it can abort (0: null)
  _hasLoaded,
  _isConnected,
  ariaBusy,          \* attribute aria-busy ("none": absent)
  dataState,         \* attribute data-state ("none": absent)
  shadow,            \* what shadowRoot holds
  hasIO,             \* 'IntersectionObserver' in window
  lead,              \* history: per URL, the first run that asked for it since
                     \* the last completion, clearCache or prefetch (0: none)
  cleared,           \* history: URLs cached at the last clearCache and not
                     \* asked for since
  nOps,              \* operations of the page so far
  srcset             \* a srcset attribute of a fetched document, before and
                     \* after _resolveRelativeURLs

vars == <<_cache, _pending, reqs, runs, src, loading, _observer, leaked,
          _abortController, _hasLoaded, _isConnected, ariaBusy, dataState,
          shadow, hasIO, lead, cleared, nOps, srcset>>

\* The state as one value, so that a method is a function from state to state.
Cur == [cache |-> _cache, pending |-> _pending, reqs |-> reqs, runs |-> runs,
        src |-> src, loading |-> loading, observer |-> _observer,
        leaked |-> leaked, ctrl |-> _abortController, hasLoaded |-> _hasLoaded,
        isConnected |-> _isConnected, ariaBusy |-> ariaBusy,
        dataState |-> dataState, shadow |-> shadow, hasIO |-> hasIO,
        lead |-> lead, cleared |-> cleared]

Commit(s) ==
  /\ _cache' = s.cache
  /\ _pending' = s.pending
  /\ reqs' = s.reqs
  /\ runs' = s.runs
  /\ src' = s.src
  /\ loading' = s.loading
  /\ _observer' = s.observer
  /\ leaked' = s.leaked
  /\ _abortController' = s.ctrl
  /\ _hasLoaded' = s.hasLoaded
  /\ _isConnected' = s.isConnected
  /\ ariaBusy' = s.ariaBusy
  /\ dataState' = s.dataState
  /\ shadow' = s.shadow
  /\ hasIO' = s.hasIO
  /\ lead' = s.lead
  /\ cleared' = s.cleared
  /\ srcset' = srcset

\* ------------------------------------------------------------ the methods

NewReq(u, o) == [url |-> u, owner |-> o, status |-> "inflight", result |-> NoRes]

\* Mutant of _fetchWithCache: the pending map is not consulted (no tier 2).
_fetchWithCache_NoDedup(s, i, u) ==
  IF s.cache[u].kind = "text"
  THEN [s |-> s, req |-> 0, hit |-> s.cache[u]]
  ELSE LET id == Len(s.reqs) + 1
       IN  [s |-> [s EXCEPT !.ctrl[i] = id,
                            !.reqs = Append(@, NewReq(u, i)),
                            !.pending[u] = id],
            req |-> id, hit |-> NoRes]

\* _fetchWithCache(url) up to its return: the state after the call, and what
\* the caller's await waits for (hit: a cached body; req: a request's promise).
_fetchWithCache(s, i, u) ==
  IF s.cache[u].kind = "text"
  THEN [s |-> s, req |-> 0, hit |-> s.cache[u]]
  ELSE IF s.pending[u] # 0
  THEN [s |-> s, req |-> s.pending[u], hit |-> NoRes]
  ELSE LET id == Len(s.reqs) + 1
       IN  [s |-> [s EXCEPT !.ctrl[i] = id,
                            !.reqs = Append(@, NewReq(u, i)),
                            !.pending[u] = id],
            req |-> id, hit |-> NoRes]

\* _abortFetch()
_abortFetch(s, i) ==
  IF s.ctrl[i] # 0
  THEN [s EXCEPT !.reqs[s.ctrl[i]].status = IF @ = "inflight" THEN "aborted" ELSE @,
                 !.ctrl[i] = 0]
  ELSE s

\* _destroyObserver()
_destroyObserver(s, i) ==
  IF s.observer[i] THEN [s EXCEPT !.observer[i] = FALSE] ELSE s

\* _beginLoad() up to its await.
_beginLoad(s, i) ==
  IF s.hasLoaded[i] THEN s
  ELSE LET s1 == [s EXCEPT !.hasLoaded[i] = TRUE] IN
    IF s.src[i] = Null THEN s1
    ELSE LET u == Resolve(s.src[i])
             f == _fetchWithCache([s1 EXCEPT !.ariaBusy[i] = "true"], i, u)
             k == Len(s.runs) + 1
             ld == IF s.lead[u] = 0 THEN k ELSE s.lead[u]
             run == [inst |-> i, src |-> s.src[i], url |-> u,
                     req |-> f.req, hit |-> f.hit, got |-> NoRes,
                     pc |-> "await", err |-> "none",
                     nErr |-> 0, nLoaded |-> 0, sigSrc |-> Null,
                     issued |-> Len(f.s.reqs) > Len(s.reqs), coh |-> ld,
                     discAwait |-> FALSE, srcStale |-> FALSE,
                     selfCancel |-> FALSE, cfgOld |-> FALSE]
         IN  [f.s EXCEPT !.runs = Append(@, run),
                         !.lead[u] = ld,
                         !.cleared = @ \ {u}]

\* _initLoading()
_initLoading(s, i) ==
  IF s.src[i] = Null THEN s
  ELSE IF s.loading[i] = "eager" THEN _beginLoad(s, i)
  ELSE IF s.hasIO
  THEN [s EXCEPT !.leaked[i] = IF s.observer[i] THEN @ + 1 ELSE @,
                 !.observer[i] = TRUE]
  ELSE _beginLoad(s, i)

\* The handlers chained on fetch() in _fetchWithCache (.then, .then, .catch)
\* and, for a prefetch, the rest of prefetch() after its await.
OnSettle(s, r, o) ==
  LET q == s.reqs[r]
      s1 == [s EXCEPT !.reqs[r].status = "settled", !.reqs[r].result = o]
  IN  IF q.owner = "prefetch"
      THEN IF o.kind = "text" THEN [s1 EXCEPT !.cache[q.url] = o] ELSE s1
      ELSE IF o.kind = "text"
           THEN [s1 EXCEPT !.cache[q.url] = o, !.pending[q.url] = 0]
           ELSE [s1 EXCEPT !.pending[q.url] = 0]

\* Mutant of Catch: AbortError is not filtered out.
Catch_NoAbortFilter(s, k, e) ==
  LET i == s.runs[k].inst IN
  [s EXCEPT !.ariaBusy[i] = "false",
            !.dataState[i] = "error",
            !.runs[k].pc = "error",
            !.runs[k].err = e,
            !.runs[k].nErr = @ + 1,
            !.runs[k].sigSrc = s.runs[k].src]

\* The catch block of _beginLoad.
Catch(s, k, e) ==
  LET i == s.runs[k].inst IN
  IF e = "abort"
  THEN [s EXCEPT !.runs[k].pc = "cancelled", !.runs[k].err = e]
  ELSE [s EXCEPT !.ariaBusy[i] = "false",
                 !.dataState[i] = "error",
                 !.runs[k].pc = "error",
                 !.runs[k].err = e,
                 !.runs[k].nErr = @ + 1,
                 !.runs[k].sigSrc = s.runs[k].src]

\* _processHTML(rawHTML, resolvedURL), called inside the try of _beginLoad:
\* it throws on a bad stylesheet href, else requests an animation frame.
_processHTML(s, k, res) ==
  IF res.bad THEN Catch(s, k, "transform")
  ELSE [s EXCEPT !.runs[k].pc = "frame"]

\* _beginLoad() from its await on.
AfterAwait(s, k) ==
  LET r == s.runs[k]
      res == IF r.req = 0 THEN r.hit ELSE s.reqs[r.req].result
      s1 == [s EXCEPT !.runs[k].got = res]
  IN  IF res.kind # "text" THEN Catch(s1, k, res.kind)
      ELSE IF ~s.isConnected[r.inst] THEN [s1 EXCEPT !.runs[k].pc = "dropped"]
      ELSE _processHTML(s1, k, res)

\* _injectIntoShadow(...)
_injectIntoShadow(s, k) ==
  LET i == s.runs[k].inst IN
  [s EXCEPT !.shadow[i] = s.runs[k].got,
            !.ariaBusy[i] = "false",
            !.dataState[i] = "loaded",
            !.runs[k].pc = "loaded",
            !.runs[k].nLoaded = @ + 1,
            !.runs[k].sigSrc = s.src[i]]

\* Mutant of OnFrame: the callback does not look at _isConnected.
OnFrame_NoGuard(s, k) == _injectIntoShadow(s, k)

\* The requestAnimationFrame callback of _processHTML.
OnFrame(s, k) ==
  IF ~s.isConnected[s.runs[k].inst] THEN [s EXCEPT !.runs[k].pc = "skipped"]
  ELSE _injectIntoShadow(s, k)

\* A settled chain: what the await of run k waits for is there.
Settled(s, k) ==
  IF s.runs[k].req = 0 THEN TRUE
  ELSE s.reqs[s.runs[k].req].status = "settled"

\* The chain of request r settles with o; history: the URL's callers so far
\* are no longer "before any completion".
Completed(s, r, o) == [OnSettle(s, r, o) EXCEPT !.lead[s.reqs[r].url] = 0]

\* The rejections of the fetch() calls aborted in this task reach their chains.
RECURSIVE SettleAborts(_, _)
SettleAborts(s, r) ==
  IF r > Len(s.reqs) THEN s
  ELSE SettleAborts(IF s.reqs[r].status = "aborted"
                    THEN Completed(s, r, Fail("abort")) ELSE s, r + 1)

\* The awaits whose value is there resume, in the order they were reached.
RECURSIVE ResumeAwaits(_, _)
ResumeAwaits(s, k) ==
  IF k > Len(s.runs) THEN s
  ELSE ResumeAwaits(IF s.runs[k].pc = "await" /\ Settled(s, k)
                    THEN AfterAwait(s, k) ELSE s, k + 1)

\* The microtask checkpoint that ends every task.
Drain(s) == ResumeAwaits(SettleAborts(s, 1), 1)

\* The animation frame: every callback requested before it runs, in order.
RECURSIVE RunFrames(_, _)
RunFrames(s, k) ==
  IF k > Len(s.runs) THEN s
  ELSE RunFrames(IF s.runs[k].pc = "frame" THEN OnFrame(s, k) ELSE s, k + 1)

\* ------------------------------------------------- the srcset transformer
\* A string is a sequence of characters. "u", "x": characters of a URL or of a
\* descriptor; " ": white space; ",": comma; "#": the fragment sign; "!": a
\* character that makes new URL() throw. "B" stands for the directory of the
\* base URL ("https://x/dir/"), "P" for its last segment ("page.html").
Chars == {"u", "x", " ", ",", "#", "!"}

Strings(n) == UNION {[1..m -> Chars] : m \in 0..n}

\* value.split(sep), sep one character
RECURSIVE Split(_, _)
Split(str, sep) ==
  IF \A j \in 1..Len(str) : str[j] # sep THEN <<str>>
  ELSE LET j == CHOOSE j \in 1..Len(str) :
                  str[j] = sep /\ \A h \in 1..(j - 1) : str[h] # sep
       IN  <<SubSeq(str, 1, j - 1)>> \o Split(SubSeq(str, j + 1, Len(str)), sep)

\* entry.trim()
RECURSIVE Trim(_)
Trim(str) ==
  IF str = <<>> THEN str
  ELSE IF Head(str) = " " THEN Trim(Tail(str))
  ELSE IF str[Len(str)] = " " THEN Trim(SubSeq(str, 1, Len(str) - 1))
  ELSE str

\* str.split(/\s+/): the pieces between the runs of white space ("" gives
\* one empty piece).
RECURSIVE SplitWS(_)
SplitWS(str) ==
  IF \A j \in 1..Len(str) : str[j] # " " THEN <<str>>
  ELSE LET j == CHOOSE j \in 1..Len(str) :
                  str[j] = " " /\ \A h \in 1..(j - 1) : str[h] # " "
           RECURSIVE SkipWS(_)
           SkipWS(rest) == IF rest # <<>> /\ Head(rest) = " "
                           THEN SkipWS(Tail(rest)) ELSE rest
       IN  <<SubSeq(str, 1, j - 1)>> \o SplitWS(SkipWS(SubSeq(str, j, Len(str))))

\* parts.join(sep)
RECURSIVE Join(_, _)
Join(parts, sep) ==
  IF Len(parts) = 0 THEN <<>>
  ELSE IF Len(parts) = 1 THEN parts[1]
  ELSE parts[1] \o sep \o Join(Tail(parts), sep)

\* new URL(ref, baseURL) throws
Throws(ref) == \E j \in 1..Len(ref) : ref[j] = "!"

\* new URL(ref, baseURL).href, ref without white space: the empty reference
\* and a fragment resolve to the base URL itself, a relative path to the
\* base's directory.
Href(ref) ==
  IF ref = <<>> \/ Head(ref) = "#" THEN <<"B", "P">> \o ref
  ELSE <<"B">> \o ref

\* The callback of .map in the srcset branch.
MapEntry(entry) ==
  LET parts == SplitWS(Trim(entry))
  IN  Join(<<Href(parts[1])>> \o Tail(parts), <<" ">>)

\* _resolveRelativeURLs on one element with a srcset attribute: the value the
\* attribute holds afterwards.
_resolveRelativeURLs(value) ==
  IF value = <<>> \/ Head(value) = "#" THEN value
  ELSE LET entries == Split(value, ",")
       IN  IF \E j \in 1..Len(entries) : Throws(SplitWS(Trim(entries[j]))[1])
           THEN value
           ELSE Join([j \in 1..Len(entries) |-> MapEntry(entries[j])], <<",", " ">>)

\* No fetched document at hand.
NoSrcset == [value |-> <<>>, out |-> <<>>, done |-> FALSE]

\* -------------------------------------------------------------- the actions

\* An operation of the page (script, user), a task of its own, within the
\* bound.
PageOp ==
  /\ nOps < MaxOps
  /\ nOps' = nOps + 1

\* connectedCallback()
connectedCallback(s, i) ==
  _initLoading([s EXCEPT !.isConnected[i] = TRUE, !.shadow[i] = Placeholder], i)

\* The state after construction (constructor(), the static fields), the
\* attributes as the markup gives them: every instance imports a.html, lazy
\* (no loading attribute) or eager.
Constructed(ld, io) ==
  [cache |-> [u \in URLs |-> NoRes],
   pending |-> [u \in URLs |-> 0],
   reqs |-> <<>>,
   runs |-> <<>>,
   src |-> [i \in Insts |-> "a.html"],
   loading |-> ld,
   observer |-> [i \in Insts |-> FALSE],
   leaked |-> [i \in Insts |-> 0],
   ctrl |-> [i \in Insts |-> 0],
   hasLoaded |-> [i \in Insts |-> FALSE],
   isConnected |-> [i \in Insts |-> FALSE],
   ariaBusy |-> [i \in Insts |-> "none"],
   dataState |-> [i \in Insts |-> "none"],
   shadow |-> [i \in Insts |-> NoRes],
   hasIO |-> io,
   lead |-> [u \in URLs |-> 0],
   cleared |-> {}]

\* The parser inserts the instances of c, in document order, in one task.
Parsed(s, c) ==
  LET s1 == IF "A" \in c THEN connectedCallback(s, "A") ELSE s
  IN  Drain(IF "B" \in c THEN connectedCallback(s1, "B") ELSE s1)

Is(s) ==
  /\ _cache = s.cache
  /\ _pending = s.pending
  /\ reqs = s.reqs
  /\ runs = s.runs
  /\ src = s.src
  /\ loading = s.loading
  /\ _observer = s.observer
  /\ leaked = s.leaked
  /\ _abortController = s.ctrl
  /\ _hasLoaded = s.hasLoaded
  /\ _isConnected = s.isConnected
  /\ ariaBusy = s.ariaBusy
  /\ dataState = s.dataState
  /\ shadow = s.shadow
  /\ hasIO = s.hasIO
  /\ lead = s.lead
  /\ cleared = s.cleared

\* The page as parsed: each instance constructed, and in the document or not.
Init ==
  /\ \E ld \in [Insts -> {Null, "eager"}] : \E io \in BOOLEAN :
       \E c \in SUBSET Insts : Is(Parsed(Constructed(ld, io), c))
  /\ nOps = 0
  /\ srcset = NoSrcset

Connect(i) ==
  /\ ~_isConnected[i]
  /\ Commit(Drain(connectedCallback(Cur, i)))
  /\ PageOp

\* History only: what the instance's own cancellation finds its runs doing.
\* discAwait: disconnected while the retrieval the run awaits was in flight;
\* srcStale: src changed, while connected and before any load of the instance
\* finished, with the run awaiting or its injection scheduled;
\* selfCancel: the instance cancelled (either way) while the run was awaiting.
MarkRuns(s, i, isSrc) ==
  [s EXCEPT !.runs = [k \in 1..Len(s.runs) |->
     LET r == s.runs[k] IN
     IF r.inst # i THEN r
     ELSE [r EXCEPT
            !.discAwait = @ \/ (~isSrc /\ r.pc = "await" /\ r.req # 0
                                 /\ s.reqs[r.req].status = "inflight"),
            !.srcStale = @ \/ (isSrc /\ r.pc \in {"await", "frame"}
                                /\ s.dataState[i] = "none"),
            !.selfCancel = @ \/ r.pc = "await"]]]

\* History only: the runs of the instance so far belong to a configuration
\* (src, loading) that is now replaced, or was re-run by reload().
OldCfg(s, i) ==
  [s EXCEPT !.runs = [k \in 1..Len(s.runs) |->
     IF s.runs[k].inst = i THEN [s.runs[k] EXCEPT !.cfgOld = TRUE]
     ELSE s.runs[k]]]

\* disconnectedCallback()
disconnectedCallback(s, i) ==
  _abortFetch(_destroyObserver([s EXCEPT !.isConnected[i] = FALSE], i), i)

Disconnect(i) ==
  /\ _isConnected[i]
  /\ Commit(Drain(disconnectedCallback(MarkRuns(Cur, i, FALSE), i)))
  /\ PageOp

\* attributeChangedCallback(name, oldValue, newValue), oldValue # newValue,
\* the attribute already holding newValue.
attributeChangedCallback(s, i, name) ==
  LET s1 == IF name = "src" /\ s.isConnected[i]
            THEN _initLoading(_abortFetch([s EXCEPT !.hasLoaded[i] = FALSE], i), i)
            ELSE s
  IN  IF name = "loading" /\ s1.isConnected[i]
      THEN _initLoading(_destroyObserver(s1, i), i)
      ELSE s1

SetSrc(i, v) ==
  /\ v # src[i]
  /\ PageOp
  /\ LET s0 == OldCfg(IF _isConnected[i] THEN MarkRuns(Cur, i, TRUE) ELSE Cur, i)
     IN  Commit(Drain(attributeChangedCallback([s0 EXCEPT !.src[i] = v], i, "src")))

SetLoading(i, v) ==
  /\ v # loading[i]
  /\ PageOp
  /\ Commit(Drain(attributeChangedCallback(
                     [OldCfg(Cur, i) EXCEPT !.loading[i] = v], i, "loading")))

\* Mutant of reload: the URL is not evicted from the cache.
reload_NoEvict(s, i) ==
  IF s.src[i] = Null THEN s
  ELSE _beginLoad(_destroyObserver([s EXCEPT !.hasLoaded[i] = FALSE], i), i)

\* reload() up to the await of its _beginLoad.
reload(s, i) ==
  IF s.src[i] = Null THEN s
  ELSE _beginLoad(
         _destroyObserver([s EXCEPT !.cache[Resolve(s.src[i])] = NoRes,
                                    !.hasLoaded[i] = FALSE], i), i)

\* (without a src, reload() returns at once and changes nothing)
Reload(i) ==
  /\ src[i] # Null
  /\ Commit(Drain(reload(OldCfg(Cur, i), i)))
  /\ PageOp

\* static clearCache()
clearCache(s) ==
  [s EXCEPT !.cache = [u \in URLs |-> NoRes],
            !.pending = [u \in URLs |-> 0]]

\* (on two empty maps, clearCache() changes nothing)
ClearCache ==
  /\ \E u \in URLs : _cache[u].kind = "text" \/ _pending[u] # 0
  /\ Commit(Drain([clearCache(Cur) EXCEPT
                    !.lead = [u \in URLs |-> 0],
                    !.cleared = {u \in URLs : _cache[u].kind = "text"}]))
  /\ PageOp

\* static prefetch(url) up to its await: its own fetch(), outside _pending.
prefetch(s, u) ==
  IF s.cache[u].kind = "text" THEN s
  ELSE [s EXCEPT !.reqs = Append(@, NewReq(u, "prefetch"))]

\* (on a cached URL, prefetch() returns the cached body and changes nothing)
Prefetch(u) ==
  /\ _cache[u].kind # "text"
  /\ Commit(Drain([prefetch(Cur, u) EXCEPT !.lead[u] = 0]))
  /\ PageOp

\* The network answers request r (a task).
NetComplete(r, o) ==
  /\ r \in 1..Len(reqs)
  /\ reqs[r].status = "inflight"
  /\ o \in Outcomes(reqs[r].url)
  /\ Commit(Drain(Completed(Cur, r, o)))
  /\ UNCHANGED nOps

\* The next animation frame (a task).
Frame ==
  /\ \E k \in 1..Len(runs) : runs[k].pc = "frame"
  /\ Commit(Drain(RunFrames(Cur, 1)))
  /\ UNCHANGED nOps

\* The IntersectionObserver callback of _initLoading, isIntersecting true.
OnIntersect(s, i) == _beginLoad(_destroyObserver(s, i), i)

\* An observer of the instance (the one in _observer, or a lost one) reports
\* the instance, which is in the document, as intersecting (a task).
Intersect(i) ==
  /\ _observer[i] \/ leaked[i] > 0
  /\ _isConnected[i]
  /\ Commit(Drain(OnIntersect(Cur, i)))
  /\ UNCHANGED nOps

Next ==
  \/ \E i \in Insts : Connect(i)
  \/ \E i \in Insts : Disconnect(i)
  \/ \E i \in Insts : \E v \in Srcs \cup {Null} : SetSrc(i, v)
  \/ \E i \in Insts : \E v \in {Null, "eager"} : SetLoading(i, v)
  \/ \E i \in Insts : Reload(i)
  \/ ClearCache
  \/ \E u \in URLs : Prefetch(u)
  \/ \E r \in 1..Len(reqs) : \E o \in Outcomes(reqs[r].url) : NetComplete(r, o)
  \/ Frame
  \/ \E i \in Insts : Intersect(i)

Spec == Init /\ [][Next]_vars

\* ---------------------------------------- the srcset transformer, on its own
\* A fetched document holds an element with any srcset value of at most
\* MaxLen characters; the component is constructed and not in the document.
SrcsetInit ==
  /\ Is(Constructed([i \in Insts |-> Null], TRUE))
  /\ nOps = 0
  /\ \E v \in Strings(MaxLen) : srcset = [value |-> v, out |-> v, done |-> FALSE]

ResolveSrcset ==
  /\ ~srcset.done
  /\ srcset' = [srcset EXCEPT !.out = _resolveRelativeURLs(srcset.value),
                              !.done = TRUE]
  /\ UNCHANGED <<_cache, _pending, reqs, runs, src, loading, _observer, leaked,
                 _abortController, _hasLoaded, _isConnected, ariaBusy,
                 dataState, shadow, hasIO, lead, cleared, nOps>>

SrcsetNext == ResolveSrcset

SrcsetSpec == SrcsetInit /\ [][SrcsetNext]_vars

\* ------------------------------------------------------------------ claims

RunIds == 1..Len(runs)

ReqIds == 1..Len(reqs)

\* C1: instances that call _fetchWithCache for one URL with no completion of a
\* retrieval of that URL, no clearCache and no prefetch of it between their
\* calls, the first of them not served from the cache, all await one and the
\* same retrieval, at most one of them issued it, and those that have resumed
\* have observed the same outcome.
C1_ConcurrentCallersShareOneRetrieval ==
  \A x \in RunIds : \A y \in RunIds :
    (/\ runs[x].inst # runs[y].inst
     /\ runs[x].coh = runs[y].coh
     /\ runs[runs[x].coh].req # 0)
    => /\ runs[x].req # 0
       /\ runs[x].req = runs[y].req
       /\ Cardinality({k \in RunIds : runs[k].coh = runs[x].coh /\ runs[k].issued}) <= 1
       /\ (runs[x].pc # "await" /\ runs[y].pc # "await" => runs[x].got = runs[y].got)

\* Two instances asked for one URL before any retrieval completed, and both
\* have received the body of the one retrieval.
C1_Witness ==
  \E x \in RunIds : \E y \in RunIds :
    /\ runs[x].inst # runs[y].inst
    /\ runs[x].coh = runs[y].coh
    /\ runs[x].issued
    /\ runs[x].got.kind = "text"
    /\ runs[y].got.kind = "text"

\* C2: no URL is a key of both the cache map and the pending map.
C2_NeverCachedAndPending ==
  \A u \in URLs : ~(_cache[u].kind = "text" /\ _pending[u] # 0)

\* C3: at most one network retrieval per URL is in flight, whoever issued it.
InFlight(u) == {r \in ReqIds : reqs[r].url = u /\ reqs[r].status = "inflight"}

C3_AtMostOneRetrievalInFlight ==
  \A u \in URLs : Cardinality(InFlight(u)) <= 1

\* C4: a run that was awaiting its retrieval, or had its injection scheduled,
\* when the src of its connected instance changed before any load of that
\* instance had finished, never injects.
C4_StaleRunNeverInjects ==
  \A k \in RunIds : runs[k].srcStale => runs[k].pc # "loaded"

\* C5: a run whose instance was disconnected while the retrieval the run awaits
\* was in flight never injects.
C5_DisconnectedRunNeverInjects ==
  \A k \in RunIds : runs[k].discAwait => runs[k].pc # "loaded"

\* C6 as claimed: every reload() on an instance with a src issues a new
\* network retrieval for the instance's resolved URL.
ReloadIssues(i) ==
  /\ Len(reqs') = Len(reqs) + 1
  /\ reqs'[Len(reqs')].url = Resolve(src[i])
  /\ reqs'[Len(reqs')].owner = i

C6_ReloadAlwaysIssues ==
  [][\A i \in Insts : Reload(i) => ReloadIssues(i)]_vars

\* C6 amended: reload() on an instance with a src issues a new network
\* retrieval for the resolved URL, cached or not, unless a retrieval for that
\* URL is registered as pending; then it issues none and awaits that one.
C6_ReloadIssuesUnlessPending ==
  [][\A i \in Insts : Reload(i) =>
       IF _pending[Resolve(src[i])] = 0
       THEN ReloadIssues(i)
       ELSE /\ Len(reqs') = Len(reqs)
            /\ Len(runs') = Len(runs) + 1
            /\ runs'[Len(runs')].req = _pending[Resolve(src[i])]]_vars

\* An instance loaded its src (the URL was cached) and then, by the one
\* operation of the page so far, started a second run for the same src that
\* issued a retrieval: only reload() does that; and elsewhere a second run of
\* an instance joined the retrieval its first run still awaits.
C6_Witness ==
  \E x \in RunIds : \E y \in RunIds :
    /\ x < y
    /\ runs[x].inst = runs[y].inst
    /\ runs[x].src = runs[y].src
    /\ runs[x].pc = "loaded"
    /\ runs[y].issued
    /\ nOps = 1

\* C7: a run ends in cancellation (its await rejected with AbortError) only if
\* its own instance cancelled while the run was awaiting; the other waiters of
\* a shared retrieval never receive the AbortError of one of them.
C7_CancellationStaysLocal ==
  \A k \in RunIds : runs[k].pc = "cancelled" => runs[k].selfCancel

\* C8: when a retrieval issued by _fetchWithCache fails, its URL is no key of
\* the pending map, the cache map is unchanged, every run that awaited it has
\* received the failure, and a _fetchWithCache call for the URL would issue a
\* new network retrieval.
FailsNow(r) ==
  /\ reqs[r].owner # "prefetch"
  /\ reqs[r].status = "inflight"
  /\ reqs'[r].status = "settled"
  /\ reqs'[r].result.kind # "text"

C8_FailureLeavesRetryPossible ==
  [][\A r \in ReqIds : FailsNow(r) =>
       LET u == reqs[r].url IN
       /\ _pending'[u] = 0
       /\ _cache' = _cache
       /\ \A k \in RunIds : (runs[k].req = r /\ runs[k].pc = "await")
            => (runs'[k].pc # "await" /\ runs'[k].got = reqs'[r].result)
       /\ \A i \in Insts : _fetchWithCache(Cur', i, u).req > Len(reqs')]_vars

\* C9: a run that ends with a failed retrieval, or with a body on which
\* _processHTML throws, is in state error with exactly one error signal, which
\* carries that error and the run's src, and the instance shows data-state
\* error and aria-busy false when the run ends (the failure reached the catch
\* block: it did not escape); a run whose await rejected with AbortError ends
\* cancelled, with no error signal and no loaded signal, then and ever after.
EndsNow(k) ==
  /\ runs'[k].pc # "await"
  /\ (k > Len(runs) \/ runs[k].pc = "await")

FailureOf(r) ==
  IF r.got.kind = "failed" THEN "failed"
  ELSE IF r.got.kind = "text" /\ r.got.bad /\ r.pc # "dropped" THEN "transform"
  ELSE IF r.got.kind = "abort" THEN "abort"
  ELSE "none"

C9_FailuresSignalledCancellationSilent ==
  [][\A k \in 1..Len(runs') :
       LET r == runs'[k] IN
       /\ FailureOf(r) \in {"failed", "transform"} =>
            /\ r.pc = "error"
            /\ r.err = FailureOf(r)
            /\ r.nErr = 1
            /\ r.nLoaded = 0
            /\ r.sigSrc = r.src
            /\ EndsNow(k) => (dataState'[r.inst] = "error" /\ ariaBusy'[r.inst] = "false")
       /\ FailureOf(r) = "abort" =>
            /\ r.pc = "cancelled"
            /\ r.nErr = 0
            /\ r.nLoaded = 0]_vars

\* One run has ended with a transform exception, one with a failed retrieval
\* and one with a cancellation.
C9_Witness ==
  /\ \E k \in RunIds : runs[k].pc = "error" /\ runs[k].err = "transform"
  /\ \E k \in RunIds : runs[k].pc = "error" /\ runs[k].err = "failed"
  /\ \E k \in RunIds : runs[k].pc = "cancelled"

\* C10: clearCache() leaves both maps empty, and the first _fetchWithCache call
\* after it for a URL that was cached before it issues a new network
\* retrieval.
C10_ClearThenFetchRetrieves ==
  [][/\ ClearCache => \A u \in URLs : _cache'[u].kind = "none" /\ _pending'[u] = 0
     /\ \A u \in cleared : \A k \in (Len(runs) + 1)..Len(runs') :
          runs'[k].url = u => runs'[k].issued]_vars

\* C13: for a srcset value whose entries are "URL [descriptor]" (no URL that
\* new URL() rejects, no fragment), the transformed value has as many
\* comma-separated entries as the original, in the same order; an entry with a
\* URL has that URL in absolute form followed by its descriptors unchanged, and
\* an empty entry (after a trailing comma) stays empty.
Tokens(str) == IF Trim(str) = <<>> THEN <<>> ELSE SplitWS(Trim(str))

C13_SrcsetEntriesRewritten ==
  (/\ srcset.done
   /\ \A j \in 1..Len(srcset.value) : srcset.value[j] \notin {"!", "#"})
  => LET ein == Split(srcset.value, ",")
         eout == Split(srcset.out, ",")
     IN  /\ Len(eout) = Len(ein)
         /\ \A j \in 1..Len(ein) :
              IF Tokens(ein[j]) = <<>> THEN Tokens(eout[j]) = <<>>
              ELSE Tokens(eout[j]) = <<Href(Tokens(ein[j])[1])>> \o Tail(Tokens(ein[j]))

\* C11: when the animation frame comes, a scheduled injection of an instance
\* that is connected then is performed (the run reports loaded); one of an
\* instance that is not connected then is skipped: the shadow subtree,
\* data-state and aria-busy of the instance are left as they were and the run
\* has fired no loaded signal.
C11_FrameInjectsOnlyWhenConnected ==
  [][\A k \in RunIds : (runs[k].pc = "frame" /\ runs'[k].pc # "frame") =>
       LET i == runs[k].inst IN
       IF _isConnected[i]
       THEN runs'[k].pc = "loaded" /\ runs'[k].nLoaded = 1
       ELSE /\ runs'[k].pc = "skipped"
            /\ runs'[k].nLoaded = 0
            /\ shadow'[i] = shadow[i]
            /\ dataState'[i] = dataState[i]
            /\ ariaBusy'[i] = ariaBusy[i]]_vars

\* The frame came for a run whose instance had been disconnected after the
\* transform, and for another whose instance was connected.
C11_Witness ==
  /\ \E k \in RunIds : runs[k].pc = "skipped" /\ ~_isConnected[runs[k].inst]
  /\ \E k \in RunIds : runs[k].pc = "loaded"

\* C12: aria-busy of an instance is "true" only while a run of the instance
\* is in progress (awaiting its retrieval, or its injection scheduled), and
\* once a run of the instance has finished (loaded or error) data-state is
\* loaded or error.
InProgress(i) ==
  \E k \in RunIds : runs[k].inst = i /\ runs[k].pc \in {"await", "frame"}

C12_BusyOnlyWhileLoading ==
  \A i \in Insts :
    /\ ariaBusy[i] = "true" => InProgress(i)
    /\ (\E k \in RunIds : runs[k].inst = i /\ runs[k].pc \in {"loaded", "error"})
         => dataState[i] \in {"loaded", "error"}

\* C14: a change of src or of loading on a connected instance cancels every
\* run of the instance that awaits its retrieval and clears _hasLoaded before
\* re-evaluating (so _hasLoaded is set afterwards only if the re-evaluation
\* started a run).
AttrChanged(i) ==
  \/ \E v \in Srcs \cup {Null} : SetSrc(i, v)
  \/ \E v \in {Null, "eager"} : SetLoading(i, v)

C14_AttributeChangeResets ==
  [][\A i \in Insts : (AttrChanged(i) /\ _isConnected[i]) =>
       /\ _hasLoaded'[i] => Len(runs') > Len(runs)
       /\ \A k \in RunIds : (runs[k].inst = i /\ runs[k].pc = "await")
            => runs'[k].pc = "cancelled"]_vars

\* C15: when an instance that has started a run for its src is inserted into
\* the document again, an eager one (or one without IntersectionObserver)
\* starts a new run, and a lazy one is armed with _hasLoaded cleared, so that
\* the next visibility signal starts one.
C15_ReconnectStartsRun ==
  [][\A i \in Insts :
       (/\ Connect(i)
        /\ src[i] # Null
        /\ \E k \in RunIds : runs[k].inst = i /\ runs[k].src = src[i])
       => IF loading[i] = "eager" \/ ~hasIO
          THEN Len(runs') = Len(runs) + 1 /\ runs'[Len(runs')].inst = i
          ELSE _observer'[i] /\ ~_hasLoaded'[i]]_vars

\* C16: a run of a lazy instance (loading not eager, IntersectionObserver
\* there) is started only by a visibility signal (or by reload(), which
\* re-runs the pipeline whatever the mode); the signal that starts the run
\* leaves the instance with no observer at all; and a signal starts no run
\* when the instance already has a run for its present configuration.
StartsRun(i) ==
  /\ Len(runs') = Len(runs) + 1
  /\ runs'[Len(runs')].inst = i

C16_LazyStartsOnceOnVisibility ==
  [][\A i \in Insts :
       /\ (StartsRun(i) /\ loading'[i] # "eager" /\ hasIO)
            => (Intersect(i) \/ Reload(i))
       /\ (StartsRun(i) /\ Intersect(i))
            => /\ ~_observer'[i]
               /\ leaked'[i] = 0
               /\ ~\E k \in RunIds : runs[k].inst = i /\ ~runs[k].cfgOld]_vars

\* C17: the disconnection of an instance that is observed leaves it with no
\* observer at all, and no run is started for an instance that is and stays
\* out of the document (other than by reload()).
C17_DisconnectUnregisters ==
  [][\A i \in Insts :
       /\ (Disconnect(i) /\ (_observer[i] \/ leaked[i] > 0))
            => (~_observer'[i] /\ leaked'[i] = 0)
       /\ (StartsRun(i) /\ ~_isConnected[i] /\ ~_isConnected'[i])
            => Reload(i)]_vars

\* C18: when a retrieval settles (with a body, a failure or an abort), a
\* pending entry that refers to another retrieval, still in flight, stays.
C18_CompletionRemovesOwnEntryOnly ==
  [][\A r \in ReqIds : (reqs[r].status = "inflight" /\ reqs'[r].status = "settled") =>
       \A u \in URLs :
         (/\ _pending[u] # 0
          /\ _pending[u] # r
          /\ reqs'[_pending[u]].status = "inflight")
         => _pending'[u] = _pending[u]]_vars

\* C19: the loaded signal of a run carries the src the run fetched.
C19_LoadedSignalNamesInjectedSrc ==
  \A k \in RunIds : runs[k].pc = "loaded" => runs[k].sigSrc = runs[k].src

\* C20: no observer of an instance is active other than the one in _observer.
C20_NoObserverOutlivesItsReference ==
  \A i \in Insts : leaked[i] = 0

====
